---- MODULE Spec2Model ----
(***************************************************************************)
(* The matrix-construction-and-factorization pipeline of the repository:   *)
(* CSV ingestion into a dense row-major buffer, the call of the external   *)
(* truncated SVD, and the binary persistence of the factor matrices.       *)
(*                                                                         *)
(* The repository holds several near-duplicate entry points.  The variable *)
(* variant says which one runs:                                            *)
(*   "SVD_main"       src/SVD/main.c (MPI, log file, save_matrices)        *)
(*   "multi_threaded" .../src/SVD/multi_threaded.c (OpenMP, save_matrices) *)
(*   "MW_main"        .../src/SVD/main.c (MPI, fill_dense_matrix_from_csv) *)
(*   "part_002"       src/unnamed/part_002 (MPI, no saving)                *)
(*   "part_003"       src/unnamed/part_003 (MPI, svd_model.dat)            *)
(*   "part_004"       src/unnamed/part_004:1-114 (MPI, inline ingestion,   *)
(*                    status-returning svds_C_dense)                       *)
(*                                                                         *)
(* A text file is a sequence of one-character strings.  A double is        *)
(* represented by the integer number of its tenths (5.0 is 50), which is   *)
(* exact for the ratings the inputs hold (at most one fractional digit).   *)
(***************************************************************************)
EXTENDS Integers, Sequences, FiniteSets, TLC

VARIABLES
    variant,     \* the entry point that runs
    rank,        \* the rank MPI_Comm_rank gives this process
    argc,        \* the argument count, the program name included
    argv,        \* the texts of the arguments rows, cols and K
    csv_file,    \* the file at the path argv[1]
    num_rows,    \* atoi(argv[2])
    num_cols,    \* atoi(argv[3])
    K,           \* atoi(argv[4])
    out_ok,      \* whether the output path can be opened for writing
    log_ok,      \* whether the log path can be opened for writing
    alloc_ok,    \* whether calloc can satisfy the request for the matrix
    pc,          \* the position of the process in its program
    A,           \* the dense matrix descriptor: nrows, ncols, the buffer d
    nmemb,       \* the element count calloc was given for the buffer of A
    fp,          \* the read position of the open input file, 0 when closed
    err,         \* the value the ingestion returned, Unset before it returns
    wild,        \* the indices outside the buffer that were written
    heap,        \* the heap blocks that are allocated and not yet freed
    Uk, Sk, Vk,  \* the factor descriptors the external routine handed back
    svd_calls,   \* how often the external routine was called
    svd_status,  \* the outcome of the external call: 0 success, else failure
    out,         \* the output file
    log,         \* the lines of the log file
    log_fp,      \* whether the handle log_fp is open
    stderr_out,  \* the messages written to stderr
    exit_code,   \* the exit code of the process, Unset while it runs
    peers        \* the other participants of the job: position and exit code

\* what the environment fixes before the run
inputs == <<variant, rank, argc, argv, csv_file, num_rows, num_cols, K, out_ok, log_ok,
            alloc_ok>>
\* the handles of the external routine's results
factors == <<Uk, Sk, Vk, svd_calls, svd_status>>

vars == <<inputs, pc, A, nmemb, fp, err, wild, heap, factors, out, log, log_fp, stderr_out,
          exit_code, peers>>

(* ----------------------------- bounds ---------------------------------- *)
\* largest declared row / column count of the input matrix
MaxDim == 2
\* largest number of data lines (after the header) of a generated file
MaxLines == 2

(* ----------------------- program constants ----------------------------- *)
\* char line[256]
LineBuf == 256

\* An input file is held as the sequence of its lines, each a number of
\* filler characters (pad) followed by the characters body; Text gives the
\* characters the program reads.  NoFile is a path that cannot be opened.
NoFile == [exists |-> FALSE, lines |-> <<>>]
File(ls) == [exists |-> TRUE, lines |-> ls]
Ln(body) == [pad |-> 0, body |-> body]
\* the value of an int variable that holds nothing yet
Unset == 0 - 1
\* a null mat pointer, and a descriptor of r x c with the buffer d
NullMat == [null |-> TRUE, nrows |-> 0, ncols |-> 0, has_d |-> FALSE, d |-> <<>>]
Mat(r, c, d) == [null |-> FALSE, nrows |-> r, ncols |-> c, has_d |-> TRUE, d |-> d]

Variants == {"SVD_main", "multi_threaded", "MW_main", "part_002", "part_003", "part_004"}

Min(S) == CHOOSE x \in S : \A y \in S : x <= y
\* the element of the one-element set S
The(S) == CHOOSE x \in S : TRUE

(* ------------------------- C integer arithmetic ------------------------ *)
\* the largest int (32 bits)
INT_MAX == 2147483647
\* A value of 64 bits, a size_t or the content of a 64-bit register, is held
\* in three parts: top * 2^62 + hi * 2^31 + lo with top < 4 and hi, lo < 2^31.
Wide(top, hi, lo) == [top |-> top, hi |-> hi, lo |-> lo]
\* no request made yet
NoLen == Wide(0 - 1, 0, 0)
\* x + y modulo 2^64
WideAdd(x, y) ==
    LET c0 == IF x.lo > INT_MAX - y.lo THEN 1 ELSE 0
        lo == IF c0 = 1 THEN x.lo - (INT_MAX - y.lo) - 1 ELSE x.lo + y.lo
        c1 == IF x.hi > INT_MAX - y.hi THEN 1 ELSE 0
        s1 == IF c1 = 1 THEN x.hi - (INT_MAX - y.hi) - 1 ELSE x.hi + y.hi
        c2 == IF c0 = 1 /\ s1 = INT_MAX THEN 1 ELSE 0
        hi == IF c2 = 1 THEN 0 ELSE s1 + c0
    IN  Wide((x.top + y.top + c1 + c2) % 4, hi, lo)
RECURSIVE WideMul(_, _)
\* the product of the non-negative ints a and b, exact (below 2^62)
WideMul(a, b) ==
    IF b = 0 THEN Wide(0, 0, 0)
    ELSE The({IF b % 2 = 1 THEN WideAdd(WideAdd(h, h), Wide(0, 0, a))
                           ELSE WideAdd(h, h) : h \in {WideMul(a, b \div 2)}})
WideLess(x, y) ==
    \/ x.top < y.top
    \/ x.top = y.top /\ x.hi < y.hi
    \/ x.top = y.top /\ x.hi = y.hi /\ x.lo < y.lo
\* the int that the low 32 bits of x are
ToInt(x) == IF x.hi % 2 = 1 THEN x.lo - INT_MAX - 1 ELSE x.lo
\* the conversion of the int w to size_t: 2^64 + w for a negative w
SizeOfInt(w) == IF w >= 0 THEN Wide(0, 0, w) ELSE Wide(3, INT_MAX, w + INT_MAX + 1)
\* a * b and a + b of int operands in 32 bits, wrapped around
IntMul(a, b) == ToInt(WideMul(a, b))
IntAdd(a, b) ==
    IF a >= 0 /\ b >= 0 /\ a > INT_MAX - b THEN (a - INT_MAX - 1) + (b - INT_MAX - 1)
    ELSE IF a < 0 /\ b < 0 /\ a < (0 - INT_MAX - 1) - b THEN (a + INT_MAX + 1) + (b + INT_MAX + 1)
    ELSE a + b

(* ------------------------- text helpers -------------------------------- *)
DigitChars == <<"0", "1", "2", "3", "4", "5", "6", "7", "8", "9">>
IsDigit(c) == \E i \in 1..10 : DigitChars[i] = c
DigitVal(c) == (CHOOSE i \in 1..10 : DigitChars[i] = c) - 1
\* isspace() of the C locale, over the characters the inputs hold
IsSpace(c) == c \in {" ", "\n", "\t", "\r"}

(* ------------------------------ fgets ---------------------------------- *)
\* fgets(line, sizeof(line), fp) on the file content s with the read position
\* at pos: at most LineBuf-1 characters, stopping after a newline; NULL when
\* no character is left.
Fgets(s, pos) ==
    LET avail == Len(s) - pos + 1
        cap   == IF avail < LineBuf - 1 THEN avail ELSE LineBuf - 1
        nl    == {k \in 1..cap : s[pos + k - 1] = "\n"}
        n     == IF nl = {} THEN cap ELSE Min(nl)
    IN  IF avail <= 0
        THEN [null |-> TRUE,  line |-> <<>>, next |-> pos]
        ELSE [null |-> FALSE, line |-> SubSeq(s, pos, pos + n - 1), next |-> pos + n]

(* ------------------------------ sscanf --------------------------------- *)
\* first index >= i of l that holds no white space (Len(l)+1 when none)
SkipWs(l, i) == Min({j \in i..(Len(l) + 1) : j = Len(l) + 1 \/ ~IsSpace(l[j])})
\* first index >= i of l that holds no digit (Len(l)+1 when none)
DigitsEnd(l, i) == Min({j \in i..(Len(l) + 1) : j = Len(l) + 1 \/ ~IsDigit(l[j])})

RECURSIVE DigitsValue(_, _, _, _)
\* value of the decimal digits l[i..j-1], accumulated left to right
DigitsValue(l, i, j, acc) ==
    IF i >= j THEN acc ELSE DigitsValue(l, i + 1, j, acc * 10 + DigitVal(l[i]))

\* the conversion %d at index i0: white space, an optional sign, digits
ScanInt(l, i0) ==
    LET i   == SkipWs(l, i0)
        sgn == IF i <= Len(l) /\ l[i] \in {"-", "+"} THEN 1 ELSE 0
        s   == i + sgn
        e   == DigitsEnd(l, s)
        v   == DigitsValue(l, s, e, 0)
    IN  IF e = s
        THEN [ok |-> FALSE, eof |-> i > Len(l), val |-> 0, next |-> i0]
        ELSE [ok |-> TRUE, eof |-> FALSE,
              val |-> IF sgn = 1 /\ l[i] = "-" THEN 0 - v ELSE v, next |-> e]

\* atoi: the integer at the start of the text, 0 when there is none
atoi(l) == IF ScanInt(l, 1).ok THEN ScanInt(l, 1).val ELSE 0

\* the conversion %lf at index i0: white space, an optional sign, digits with
\* an optional fraction; the value in tenths
ScanDouble(l, i0) ==
    LET i   == SkipWs(l, i0)
        sgn == IF i <= Len(l) /\ l[i] \in {"-", "+"} THEN 1 ELSE 0
        s   == i + sgn
        e1  == DigitsEnd(l, s)
        dot == e1 <= Len(l) /\ l[e1] = "."
        e2  == IF dot THEN DigitsEnd(l, e1 + 1) ELSE e1
        ip  == DigitsValue(l, s, e1, 0)
        fr  == IF dot /\ e2 > e1 + 1 THEN DigitVal(l[e1 + 1]) ELSE 0
        v   == ip * 10 + fr
        any == e1 > s \/ (dot /\ e2 > e1 + 1)
    IN  IF ~any
        THEN [ok |-> FALSE, val |-> 0, next |-> i0]
        ELSE [ok |-> TRUE, val |-> IF sgn = 1 /\ l[i] = "-" THEN 0 - v ELSE v,
              next |-> e2]

\* sscanf(line, "%d,%d,%lf", &uid, &mid, &rating): the number of conversions
\* made (-1 for EOF before the first one) and the values converted.  What
\* follows the third conversion is never looked at.
\* Each conversion is made once, left to right, from where the one before
\* it stopped.
Sscanf(l) ==
    LET none == [n |-> 0, uid |-> 0, mid |-> 0, rating |-> 0]
        Third(a, b, c) ==
            IF ~c.ok THEN [none EXCEPT !.n = 2, !.uid = a.val, !.mid = b.val]
            ELSE [n |-> 3, uid |-> a.val, mid |-> b.val, rating |-> c.val]
        Second(a, b) ==
            IF ~b.ok THEN [none EXCEPT !.n = 1, !.uid = a.val]
            ELSE IF ~(b.next <= Len(l) /\ l[b.next] = ",")
                 THEN [none EXCEPT !.n = 2, !.uid = a.val, !.mid = b.val]
            ELSE The({Third(a, b, c) : c \in {ScanDouble(l, b.next + 1)}})
        First(a) ==
            IF ~a.ok THEN [none EXCEPT !.n = IF a.eof THEN 0 - 1 ELSE 0]
            ELSE IF ~(a.next <= Len(l) /\ l[a.next] = ",")
                 THEN [none EXCEPT !.n = 1, !.uid = a.val]
            ELSE The({Second(a, b) : b \in {ScanInt(l, a.next + 1)}})
    IN  The({First(a) : a \in {ScanInt(l, 1)}})

(* --------------------------- input files ------------------------------- *)
RECURSIVE NatChars(_)
\* the decimal digits of n >= 0
NatChars(n) ==
    IF n < 10 THEN <<DigitChars[n + 1]>>
    ELSE NatChars(n \div 10) \o <<DigitChars[(n % 10) + 1]>>
IntChars(n) == IF n < 0 THEN <<"-">> \o NatChars(0 - n) ELSE NatChars(n)
\* a rating of t tenths written with one fractional digit
RatingChars(t) == NatChars(t \div 10) \o <<".">> \o <<DigitChars[(t % 10) + 1]>>
\* the line <user_index>,<item_index>,<rating> of the triple t (no newline)
FormatTriple(t) == IntChars(t[1]) \o <<",">> \o IntChars(t[2]) \o <<",">> \o RatingChars(t[3])

\* triples with small indices (in bounds for a 2x2 matrix), one key twice
SmallTriples == {<<0, 0, 50>>, <<0, 0, 30>>, <<0, 1, 30>>, <<1, 0, 40>>, <<1, 1, 50>>}
\* triples out of bounds whatever the declared dimensions
OobTriples == {<<MaxDim, 0, 50>>, <<0, MaxDim, 50>>, <<0 - 1, 1, 50>>, <<1, 0 - 1, 50>>}
TripleLines == {FormatTriple(t) : t \in SmallTriples \cup OobTriples}
\* lines that are no triple: text, too few fields, an empty line
MalformedLines == {<<"x">>, <<"0", ",", "0">>, <<>>}
\* lines that start with a triple and carry more: a fourth field, trailing text
TrailingLines == {FormatTriple(<<0, 0, 50>>) \o <<",", "7">>,
                  FormatTriple(<<1, 1, 30>>) \o <<"x">>}
DataLines == TripleLines \cup MalformedLines \cup TrailingLines

HeaderLine == <<"u", ",", "m", ",", "r">>
\* n characters "x"
Filler(n) == [i \in 1..n |-> "x"]
\* a line longer than the read buffer whose tail reads as a triple
LongLn == [pad |-> LineBuf - 1, body |-> FormatTriple(<<1, 1, 40>>)]
\* the characters of the line descriptor ln (no newline)
FullLine(ln) == Filler(ln.pad) \o ln.body

RECURSIVE JoinLines(_)
\* the text of a file holding the lines ls, each ended by a newline
JoinLines(ls) ==
    IF ls = <<>> THEN <<>> ELSE Head(ls) \o <<"\n">> \o JoinLines(Tail(ls))

\* the characters of the file f
Text(f) == JoinLines([i \in 1..Len(f.lines) |-> FullLine(f.lines[i])])

LineSeqs(n) == UNION {[1..k -> {Ln(b) : b \in DataLines}] : k \in 0..n}
\* the files the ingestion specification reads: a header or a triple as the
\* first line and up to MaxLines data lines; the example of the
\* specification; a first line and a data line longer than the read buffer;
\* a file that holds nothing
IngestFiles ==
    {File(<<Ln(h)>> \o ls) : h \in {HeaderLine, FormatTriple(<<1, 1, 40>>)},
                             ls \in LineSeqs(MaxLines)}
    \cup {File(<<Ln(HeaderLine), Ln(FormatTriple(<<0, 0, 50>>)),
                 Ln(FormatTriple(<<0, 1, 30>>)), Ln(FormatTriple(<<1, 0, 40>>))>>),
          File(<<LongLn, Ln(FormatTriple(<<0, 0, 50>>))>>),
          File(<<Ln(HeaderLine), LongLn, Ln(FormatTriple(<<0, 0, 50>>))>>),
          File(<<>>)}

\* the arguments rows, cols and K as the command line gives them
Argv(r, c, k) == [rows |-> r, cols |-> c, K |-> k]
\* an argument that is not an integer
NotAnInt == <<"x">>

\* MPI_Abort(MPI_COMM_WORLD, 1): every participant still running is ended
\* with a nonzero exit code
MPI_Abort(ps) ==
    [r \in DOMAIN ps |->
        IF ps[r].pc = "done" THEN ps[r] ELSE [pc |-> "killed", exit_code |-> 1]]

(* ------------------------- variant differences ------------------------- *)
\* the variants whose ingestion first tests !A || !A->d (return 1)
ChecksMat(v) == v \in {"SVD_main", "multi_threaded", "part_002", "part_003"}
\* the variants that compare A->nrows/ncols with the arguments (return 2)
ChecksDims(v) == v \in {"SVD_main", "multi_threaded", "part_002"}
\* the code returned when fopen fails
FopenErr(v) == IF v = "MW_main" THEN 1 ELSE IF v = "part_003" THEN 2 ELSE 3
\* the variants that test the fgets of the header line
ChecksHeader(v) == v \in {"SVD_main", "multi_threaded", "part_002", "part_003"}
\* the code returned when the header fgets reads nothing
EmptyErr(v) == IF v = "part_003" THEN 3 ELSE 4
\* the variants that test 0 <= uid < num_rows and 0 <= mid < num_cols
ChecksBounds(v) == v # "part_004"

ZeroBuf(n) == [i \in 1..n |-> 0]

(* ---------------------------- ingestion -------------------------------- *)
\* the body of the read loop for one sscanf result s: the new buffer and the
\* indices written outside it
StoreRating(v, M, nr, nc, s) ==
    IF s.n # 3 THEN [d |-> M.d, wild |-> {}]
    ELSE IF ChecksBounds(v)
    THEN IF s.uid >= 0 /\ s.uid < nr /\ s.mid >= 0 /\ s.mid < nc
         THEN [d |-> [M.d EXCEPT ![s.uid * M.ncols + s.mid + 1] = s.rating], wild |-> {}]
         ELSE [d |-> M.d, wild |-> {}]
    ELSE LET idx == s.uid * M.ncols + s.mid
         IN  IF idx >= 0 /\ idx < Len(M.d)
             THEN [d |-> [M.d EXCEPT ![idx + 1] = s.rating], wild |-> {}]
             ELSE [d |-> M.d, wild |-> {idx}]

\* entry of the ingestion: the argument checks and fopen(filename, "r"), each
\* failure with its message on stderr.  The inline ingestion of part_004
\* calls MPI_Abort when the file cannot be opened.
FillEnter ==
    /\ pc = "fill_enter"
    /\ IF ChecksMat(variant) /\ (A.null \/ ~A.has_d)
       THEN /\ err' = 1 /\ pc' = "fill_ret"
            /\ stderr_out' = Append(stderr_out, "invalid mat")
            /\ UNCHANGED <<fp, exit_code>>
       ELSE IF ChecksDims(variant) /\ (A.nrows # num_rows \/ A.ncols # num_cols)
       THEN /\ err' = 2 /\ pc' = "fill_ret"
            /\ stderr_out' = Append(stderr_out, "mismatch")
            /\ UNCHANGED <<fp, exit_code>>
       ELSE IF ~csv_file.exists
       THEN /\ stderr_out' = Append(stderr_out, "cannot open csv")
            /\ IF variant = "part_004"
               THEN /\ pc' = "aborted" /\ exit_code' = 1 /\ UNCHANGED <<fp, err>>
               ELSE /\ err' = FopenErr(variant) /\ pc' = "fill_ret"
                    /\ UNCHANGED <<fp, exit_code>>
       ELSE /\ fp' = 1 /\ pc' = "fill_header"
            /\ UNCHANGED <<err, exit_code, stderr_out>>
    /\ peers' = IF pc' = "aborted" THEN MPI_Abort(peers) ELSE peers
    /\ UNCHANGED <<inputs, nmemb, A, wild, heap, factors, out, log, log_fp>>

\* the fgets that skips the header line
FillHeader ==
    /\ pc = "fill_header"
    /\ LET r == Fgets(Text(csv_file), fp)
       IN  IF r.null /\ ChecksHeader(variant)
           THEN /\ fp' = 0 /\ err' = EmptyErr(variant) /\ pc' = "fill_ret"
           ELSE /\ fp' = r.next /\ pc' = "fill_loop" /\ UNCHANGED err
    /\ UNCHANGED <<inputs, nmemb, peers, A, wild, heap, factors, out, log, log_fp, stderr_out, exit_code>>

\* one turn of while (fgets(line, sizeof(line), fp)): sscanf and the store.
\* A store outside the buffer is undefined behaviour: the run goes on with
\* the heap damaged, or stops.
FillLine ==
    /\ pc = "fill_loop"
    /\ \E r \in {Fgets(Text(csv_file), fp)} :
        /\ ~r.null
        /\ \E w \in {StoreRating(variant, A, num_rows, num_cols, Sscanf(r.line))} :
            /\ A' = [A EXCEPT !.d = w.d]
            /\ wild' = wild \cup w.wild
            /\ fp' = r.next
            /\ \E crash \in BOOLEAN :
                  pc' = IF w.wild # {} /\ crash THEN "crashed" ELSE "fill_loop"
    /\ UNCHANGED <<inputs, nmemb, peers, err, heap, factors, out, log, log_fp, stderr_out, exit_code>>

\* an end of file that starts the read loop over from the first line
FillEof_Rewind ==
    /\ pc = "fill_loop"
    /\ Fgets(Text(csv_file), fp).null
    /\ fp' = 1
    /\ pc' = "fill_loop"
    /\ UNCHANGED <<inputs, nmemb, peers, A, err, wild, heap, factors, out, log, log_fp,
                   stderr_out, exit_code>>

\* fgets returns NULL at the end of the file: fclose(fp) and return 0
FillEof ==
    /\ pc = "fill_loop"
    /\ Fgets(Text(csv_file), fp).null
    /\ fp' = 0
    /\ err' = 0
    /\ pc' = "fill_ret"
    /\ UNCHANGED <<inputs, nmemb, peers, A, wild, heap, factors, out, log, log_fp, stderr_out, exit_code>>

\* the ingestion alone: the state at the call of the ingestion, for every
\* variant, declared dimensions and input file
InitIngest ==
    /\ variant \in Variants
    /\ rank = 0
    /\ argc = 5
    /\ csv_file \in IngestFiles \cup {NoFile}
    /\ num_rows \in 1..MaxDim
    /\ num_cols \in 1..MaxDim
    /\ K = 1
    /\ argv = Argv(IntChars(num_rows), IntChars(num_cols), IntChars(K))
    /\ peers = <<>>
    /\ out_ok = TRUE
    /\ log_ok = TRUE
    /\ alloc_ok = TRUE
    /\ pc = "fill_enter"
    /\ A = Mat(num_rows, num_cols, ZeroBuf(num_rows * num_cols))
    /\ nmemb = Wide(0, 0, num_rows * num_cols)
    /\ fp = 0
    /\ err = Unset
    /\ wild = {}
    /\ heap = {<<"A", "d">>}
    /\ Uk = NullMat /\ Sk = NullMat /\ Vk = NullMat
    /\ svd_calls = 0
    /\ svd_status = 0
    /\ out = NoFile
    /\ log = <<>>
    /\ log_fp = FALSE
    /\ stderr_out = <<>>
    /\ exit_code = Unset

NextIngest == FillEnter \/ FillHeader \/ FillLine \/ FillEof

SpecIngest == InitIngest /\ [][NextIngest]_vars

(* --------------------------- serialization ----------------------------- *)
\* largest row / column count of a factor matrix handed to the serializer
MaxMatDim == 2

\* The output file is held as its bytes.  NoOut is a path that holds no file.
NoOut == [exists |-> FALSE, bytes |-> <<>>]
OutFile(b) == [exists |-> TRUE, bytes |-> b]

\* the four bytes of the object representation of the int n (little endian,
\* two's complement), as fwrite(&n, sizeof(int), 1, fp) writes them
IntBytes(n) ==
    LET u == IF n >= 0 THEN n ELSE (n + 2147483647) + 1
        hi == (u \div 16777216) + (IF n >= 0 THEN 0 ELSE 128)
    IN  <<u % 256, (u \div 256) % 256, (u \div 65536) % 256, hi>>
\* the eight bytes that hold the double x: fwrite copies the object
\* representation unchanged; the model's representation of x (its tenths) is
\* laid out as a 64-bit little-endian two's-complement pattern
DoubleBytes(x) == IntBytes(x) \o (IF x >= 0 THEN <<0, 0, 0, 0>> ELSE <<255, 255, 255, 255>>)

RECURSIVE BufferBytes(_, _)
\* fwrite(d, sizeof(double), n, fp): the first n doubles of d, in memory order
BufferBytes(d, n) ==
    IF n <= 0 THEN <<>> ELSE BufferBytes(d, n - 1) \o DoubleBytes(d[n])

\* save_one_matrix with the two counts written in the other order
save_one_matrix_ColsFirst(M) ==
    IF M.null \/ ~M.has_d
    THEN IntBytes(0) \o IntBytes(0)
    ELSE IntBytes(M.ncols) \o IntBytes(M.nrows) \o BufferBytes(M.d, M.nrows * M.ncols)
\* save_one_matrix that writes the counts of a descriptor without a buffer
save_one_matrix_NoDataHeader(M) ==
    IF M.null THEN IntBytes(0) \o IntBytes(0)
    ELSE IF ~M.has_d THEN IntBytes(M.nrows) \o IntBytes(M.ncols)
    ELSE IntBytes(M.nrows) \o IntBytes(M.ncols) \o BufferBytes(M.d, M.nrows * M.ncols)
\* save_one_matrix that writes nothing for a null descriptor
save_one_matrix_SkipNull(M) ==
    IF M.null THEN <<>>
    ELSE IF ~M.has_d THEN IntBytes(0) \o IntBytes(0)
    ELSE IntBytes(M.nrows) \o IntBytes(M.ncols) \o BufferBytes(M.d, M.nrows * M.ncols)
\* save_one_matrix that writes one value too few
save_one_matrix_ShortCount(M) ==
    IF M.null \/ ~M.has_d
    THEN IntBytes(0) \o IntBytes(0)
    ELSE IntBytes(M.nrows) \o IntBytes(M.ncols)
         \o BufferBytes(M.d, M.nrows * M.ncols - 1)
\* save_one_matrix(M, fp): the bytes appended for the descriptor M
save_one_matrix(M) ==
    IF M.null \/ ~M.has_d
    THEN IntBytes(0) \o IntBytes(0)
    ELSE IntBytes(M.nrows) \o IntBytes(M.ncols) \o BufferBytes(M.d, M.nrows * M.ncols)

\* a serializer that only the MPI entry points call
Saves_LeaderOnly(v) == v \in {"SVD_main", "part_003"}
\* the variants that serialize the factor matrices
Saves(v) == v \in {"SVD_main", "multi_threaded", "part_003"}

\* fopen(<output path>, "wb"): the file is created or truncated; when it
\* cannot be opened save_matrices prints a message and returns
SaveOpen ==
    /\ pc = "save_open"
    /\ IF out_ok
       THEN /\ out' = OutFile(<<>>) /\ pc' = "save_U" /\ UNCHANGED stderr_out
       ELSE /\ pc' = "save_ret"
            /\ stderr_out' = Append(stderr_out, "cannot open output")
            /\ UNCHANGED out
    /\ UNCHANGED <<inputs, nmemb, peers, A, fp, err, wild, heap, factors, log, log_fp, exit_code>>

\* save_one_matrix(Uk, fp)
SaveU ==
    /\ pc = "save_U"
    /\ out' = OutFile(out.bytes \o save_one_matrix(Uk))
    /\ pc' = "save_S"
    /\ UNCHANGED <<inputs, nmemb, peers, A, fp, err, wild, heap, factors, log, log_fp, stderr_out, exit_code>>

\* save_one_matrix(Sk, fp)
SaveS ==
    /\ pc = "save_S"
    /\ out' = OutFile(out.bytes \o save_one_matrix(Sk))
    /\ pc' = "save_V"
    /\ UNCHANGED <<inputs, nmemb, peers, A, fp, err, wild, heap, factors, log, log_fp, stderr_out, exit_code>>

\* save_one_matrix(Vk, fp), then fclose(fp) and the message on stdout
SaveV ==
    /\ pc = "save_V"
    /\ out' = OutFile(out.bytes \o save_one_matrix(Vk))
    /\ pc' = "save_ret"
    /\ UNCHANGED <<inputs, nmemb, peers, A, fp, err, wild, heap, factors, log, log_fp, stderr_out, exit_code>>

\* the value at position i of the buffer of factor w (1: U, 2: S, 3: V), in
\* tenths: the values differ by position and by factor, and S holds negatives
FactorVal(w, i) == IF w = 2 THEN 0 - (10 * i + w) ELSE 10 * i + w
FactorBuf(w, n) == [i \in 1..n |-> FactorVal(w, i)]
\* the descriptors the external routine can hand back for factor w with up to
\* n rows and columns: null, a descriptor without a buffer, a filled one
FactorMats(w, n) ==
    {NullMat, [null |-> FALSE, nrows |-> 2, ncols |-> 1, has_d |-> FALSE, d |-> <<>>]}
    \cup {Mat(r, c, FactorBuf(w, r * c)) : r \in 0..n, c \in 0..n}

\* the heap blocks of the descriptor M named n: the struct and its buffer
Blocks(n, M) ==
    IF M.null THEN {} ELSE IF M.has_d THEN {<<n, "mat">>, <<n, "d">>} ELSE {<<n, "mat">>}

\* the serializer alone: the state at the call of save_matrices, for every
\* combination of descriptors, an output path that can or cannot be opened,
\* and an output file that is absent or left by an earlier run
InitSave ==
    /\ variant \in {v \in Variants : Saves(v)}
    /\ rank = 0
    /\ argc = 5
    /\ csv_file = File(<<Ln(HeaderLine)>>)
    /\ num_rows = 1
    /\ num_cols = 1
    /\ K = 1
    /\ argv = Argv(IntChars(num_rows), IntChars(num_cols), IntChars(K))
    /\ peers = <<>>
    /\ out_ok \in BOOLEAN
    /\ log_ok = TRUE
    /\ alloc_ok = TRUE
    /\ pc = "save_open"
    /\ A = Mat(1, 1, ZeroBuf(1))
    /\ nmemb = Wide(0, 0, 1)
    /\ fp = 0
    /\ err = 0
    /\ wild = {}
    /\ Uk \in FactorMats(1, MaxMatDim)
    /\ Sk \in FactorMats(2, MaxMatDim)
    /\ Vk \in FactorMats(3, MaxMatDim)
    /\ heap = {<<"A", "d">>} \cup Blocks("Uk", Uk) \cup Blocks("Sk", Sk) \cup Blocks("Vk", Vk)
    /\ svd_calls = 1
    /\ svd_status = 0
    /\ out \in {NoOut, OutFile(<<7, 7, 7>>)}
    /\ log = <<>>
    /\ log_fp = FALSE
    /\ stderr_out = <<>>
    /\ exit_code = Unset

NextSave == SaveOpen \/ SaveU \/ SaveS \/ SaveV

SpecSave == InitSave /\ [][NextSave]_vars

(* ------------------- the input as the claims see it -------------------- *)
Max(S) == CHOOSE x \in S : \A y \in S : x >= y
\* the positions of a text at which a line starts
LineStarts(text) == {1} \cup {i + 1 : i \in {j \in 1..Len(text) : text[j] = "\n"}}
\* the line of the text that starts at p, without its newline
LineAt(text, p) ==
    LET e == Min({j \in p..(Len(text) + 1) : j = Len(text) + 1 \/ text[j] = "\n"})
    IN  SubSeq(text, p, e - 1)
\* the lines of the file f after the first one
DataLinesOf(f) ==
    IF f.lines = <<>> THEN <<>>
    ELSE [i \in 1..(Len(f.lines) - 1) |-> FullLine(f.lines[i + 1])]

\* the triples a well-formed line can hold
TripleUniverse == ((0 - 1)..MaxDim) \X ((0 - 1)..MaxDim) \X {30, 40, 50}
IsTripleLine(l) == \E t \in TripleUniverse : FormatTriple(t) = l
TripleOf(l) == CHOOSE t \in TripleUniverse : FormatTriple(t) = l
InBounds(t, nr, nc) == t[1] >= 0 /\ t[1] < nr /\ t[2] >= 0 /\ t[2] < nc
\* the rating the matrix must hold at (u, m) after the well-formed lines ls:
\* that of the last triple with this key, 0.0 when there is none
Expected(ls, u, m) ==
    LET ks == {k \in 1..Len(ls) : IsTripleLine(ls[k]) /\ TripleOf(ls[k])[1] = u
                                  /\ TripleOf(ls[k])[2] = m}
    IN  IF ks = {} THEN 0 ELSE TripleOf(ls[Max(ks)])[3]
\* the ingestion has returned success
FillDone == pc = "fill_ret" /\ err = 0
\* the read position is at the start of a line of the file that holds l
AboutToRead(l) ==
    /\ pc = "fill_loop"
    /\ fp \in LineStarts(Text(csv_file))
    /\ fp <= Len(Text(csv_file))
    /\ LineAt(Text(csv_file), fp) = l

(* ------------------------------ claims --------------------------------- *)
\* C1: for every CSV whose data lines are well-formed in-bounds triples, after
\* ingestion the entry at (u, m) is the rating of the last triple in file order
\* with that key, and every entry without a triple is exactly 0.0.
C1_LastWriteWins ==
    LET ls == DataLinesOf(csv_file)
    IN  (/\ FillDone
         /\ \A k \in 1..Len(ls) :
               IsTripleLine(ls[k]) /\ InBounds(TripleOf(ls[k]), num_rows, num_cols))
        => \A u \in 0..(num_rows - 1), m \in 0..(num_cols - 1) :
              A.d[u * num_cols + m + 1] = Expected(ls, u, m)

\* C2: a triple with u < 0, u >= rows, m < 0 or m >= cols never changes a
\* matrix entry, writes at no index inside or outside the buffer, and neither
\* raises an error nor stops the ingestion, in every variant.
C2_OutOfBoundsDropped ==
    [][\A t \in OobTriples :
          AboutToRead(FormatTriple(t))
          => (A' = A /\ wild' = wild /\ pc' = "fill_loop")]_vars

RECURSIVE FillFrom(_, _, _, _, _, _)
\* the buffer the read loop leaves when it starts at position pos
FillFrom(v, M, nr, nc, text, pos) ==
    LET r == Fgets(text, pos)
    IN  IF r.null THEN M.d
        ELSE FillFrom(v, [M EXCEPT !.d = StoreRating(v, M, nr, nc, Sscanf(r.line)).d],
                      nr, nc, text, r.next)
\* the position after the first line of the text
AfterFirstLine(text) == Len(LineAt(text, 1)) + 2

\* C3: the first line is discarded whatever its content or length: the
\* matrix built is the one the lines after the first line give, and nothing
\* of the first line is applied.
C3_FirstLineDiscarded ==
    (FillDone /\ wild = {})
    => A.d = FillFrom(variant, Mat(num_rows, num_cols, ZeroBuf(num_rows * num_cols)),
                      num_rows, num_cols, Text(csv_file), AfterFirstLine(Text(csv_file)))

\* lines that do not parse as the three fields integer, integer, real
UnparsableLines == MalformedLines \cup {FullLine(LongLn)}

\* C4: a data line that does not parse as integer, integer, real is skipped:
\* the matrix is what the other data lines give, ingestion returns success.
\* (Stated for files with a first line that fits the read buffer and data
\* lines that are unparsable or well-formed in-bounds triples.)
C4_MalformedSkipped ==
    LET ls == DataLinesOf(csv_file)
    IN  (/\ pc = "fill_ret"
         /\ csv_file.lines # <<>>
         /\ csv_file.lines[1] = Ln(HeaderLine)
         /\ \E k \in 1..Len(ls) : ls[k] \in UnparsableLines
         /\ \A k \in 1..Len(ls) :
               \/ ls[k] \in UnparsableLines
               \/ IsTripleLine(ls[k]) /\ InBounds(TripleOf(ls[k]), num_rows, num_cols))
        => /\ err = 0
           /\ log = <<>>
           /\ stderr_out = <<>>
           /\ \A u \in 0..(num_rows - 1), m \in 0..(num_cols - 1) :
                 A.d[u * num_cols + m + 1] = Expected(ls, u, m)

\* C5: a line that starts with a valid triple and carries more (a fourth
\* field, text after the rating) has another shape and leaves the matrix
\* unchanged.
C5_OnlyExactShapeApplied ==
    [][\A l \in TrailingLines : AboutToRead(l) => A' = A]_vars

(* ---------------- the record format as a reader sees it ---------------- *)
\* the int held by the four bytes of b at p (little endian, two's complement)
DecInt(b, p) ==
    b[p] + 256 * b[p + 1] + 65536 * b[p + 2]
    + 16777216 * (IF b[p + 3] >= 128 THEN b[p + 3] - 256 ELSE b[p + 3])
\* the double (in tenths) held by the eight bytes of b at p
DecDouble(b, p) == DecInt(b, p)
\* one record read at p: a row count, a column count, rows x cols values
ReadRecord(b, p) ==
    IF p + 7 > Len(b)
    THEN [ok |-> FALSE, nrows |-> 0, ncols |-> 0, d |-> <<>>, next |-> p]
    ELSE LET r == DecInt(b, p)
             c == DecInt(b, p + 4)
         IN  IF r < 0 \/ c < 0 \/ p + 7 + 8 * r * c > Len(b)
             THEN [ok |-> FALSE, nrows |-> r, ncols |-> c, d |-> <<>>, next |-> p]
             ELSE [ok |-> TRUE, nrows |-> r, ncols |-> c,
                   d |-> [i \in 1..(r * c) |-> DecDouble(b, p + 8 * i)],
                   next |-> p + 8 + 8 * r * c]
\* the three records of a file, and whether the file ends after them
ReadThree(b) ==
    LET r1 == ReadRecord(b, 1)
        r2 == ReadRecord(b, r1.next)
        r3 == ReadRecord(b, r2.next)
    IN  [ok |-> r1.ok /\ r2.ok /\ r3.ok /\ r3.next = Len(b) + 1,
         recs |-> <<r1, r2, r3>>]

\* the descriptor M is there and has a buffer
HasData(M) == ~M.null /\ M.has_d
\* save_matrices has returned after writing the output file
Saved == pc = "save_ret" /\ out_ok
\* the bytes of b from offset o + 1 to o + n
Slice(b, o, n) == SubSeq(b, o + 1, o + n)
\* the length of the record of M
RecLen(M) == IF HasData(M) THEN 8 + 8 * M.nrows * M.ncols ELSE 8
\* the record of M lies at offset o of b: row count, column count, then the
\* entry (i, j) at place i * ncols + j of the payload
RecordAt(b, o, M) ==
    /\ Slice(b, o, 4) = IntBytes(M.nrows)
    /\ Slice(b, o + 4, 4) = IntBytes(M.ncols)
    /\ \A i \in 0..(M.nrows - 1), j \in 0..(M.ncols - 1) :
          Slice(b, o + 8 + 8 * (i * M.ncols + j), 8)
          = DoubleBytes(M.d[i * M.ncols + j + 1])

\* C6: the serializer writes U, then S, then V to one output; for each matrix
\* that is there it writes the row count, the column count and exactly
\* rows x cols values in row-major order, with nothing between or after the
\* three records.
C6_RecordOrderAndLayout ==
    Saved =>
        /\ out.exists
        /\ Len(out.bytes) = RecLen(Uk) + RecLen(Sk) + RecLen(Vk)
        /\ HasData(Uk) => RecordAt(out.bytes, 0, Uk)
        /\ HasData(Sk) => RecordAt(out.bytes, RecLen(Uk), Sk)
        /\ HasData(Vk) => RecordAt(out.bytes, RecLen(Uk) + RecLen(Sk), Vk)
C6_Witness ==
    /\ Saved
    /\ HasData(Uk) /\ Uk.nrows = 2 /\ Uk.ncols = 2
    /\ HasData(Sk) /\ Sk.nrows = 1 /\ Sk.ncols = 2
    /\ HasData(Vk) /\ Vk.nrows = 2 /\ Vk.ncols = 1

\* C7: for every combination of present and absent (null) U, S, V, a written
\* output file holds exactly three records, and an absent matrix is the
\* record 0, 0 without payload, never left out.
C7_AlwaysThreeRecords ==
    Saved =>
        LET f == ReadThree(out.bytes)
        IN  /\ f.ok
            /\ \A w \in 1..3 :
                  <<Uk, Sk, Vk>>[w].null
                  => /\ f.recs[w].nrows = 0
                     /\ f.recs[w].ncols = 0
                     /\ f.recs[w].d = <<>>
                     /\ f.recs[w].next = (IF w = 1 THEN 1 ELSE f.recs[w - 1].next) + 8
C7_Witness ==
    /\ Saved
    /\ HasData(Uk) /\ Uk.nrows = 2 /\ Uk.ncols = 1
    /\ Sk.null
    /\ HasData(Vk) /\ Vk.nrows = 1 /\ Vk.ncols = 2

\* C8: round trip: for three matrices, each present with its dimensions and
\* values or absent, reading the written file back with the record format
\* gives the exact row and column counts and every value of each matrix, and
\* an absent matrix reads back as the 0/0 record.
C8_RoundTrip ==
    (Saved /\ \A w \in 1..3 : <<Uk, Sk, Vk>>[w].null \/ HasData(<<Uk, Sk, Vk>>[w]))
    => LET f == ReadThree(out.bytes)
       IN  /\ f.ok
           /\ \A w \in 1..3 :
                 LET M == <<Uk, Sk, Vk>>[w]
                     R == f.recs[w]
                 IN  IF M.null
                     THEN R.nrows = 0 /\ R.ncols = 0 /\ R.d = <<>>
                     ELSE R.nrows = M.nrows /\ R.ncols = M.ncols /\ R.d = M.d
C8_Witness ==
    /\ Saved
    /\ HasData(Uk) /\ Uk.nrows = 2 /\ Uk.ncols = 2
    /\ HasData(Sk) /\ Sk.nrows = 2 /\ Sk.ncols = 2
    /\ Vk.null
    /\ ReadThree(out.bytes).recs[2].d = Sk.d

\* ---------------------------------------------------------------------
\* The whole run: main() of each entry point
\* ---------------------------------------------------------------------

\* the other participants of the MPI job are ranks 1..MaxRank
MaxRank == 1
\* int kmax = 5: the rank the entry point without a K argument asks for
kmax == 5
\* the output file an earlier run left behind
StaleOut == OutFile(<<7, 7, 7>>)
\* the log an earlier run left behind
StaleLog == <<"earlier run">>

\* if (argc < 5), or if (argc < 4) where the command line has no K
MinArgc(v) == IF v = "part_004" THEN 4 ELSE 5
\* the entry point that writes its messages to svd_mpi.log
HasLog(v) == v = "SVD_main"
\* the entry point without MPI returns from main where the others MPI_Abort
UsesMPI(v) == v # "multi_threaded"
\* the entry points whose cleanup frees the factor descriptors
FreesFactors(v) == v # "MW_main"
\* the rank handed to svds_C_dense
RankArg(v, k) == IF v = "part_004" THEN kmax ELSE k

\* fprintf(log_fp, ...) where the entry point has a log file
LogLine(v, l, msg) == IF HasLog(v) THEN Append(l, msg) ELSE l
\* fprintf(stderr, ...) where the entry point has no log file
ErrLine(v, e, msg) == IF HasLog(v) THEN e ELSE Append(e, msg)
\* how a failed run ends: MPI_Abort(MPI_COMM_WORLD, 1), or return 1
FailPc(v) == IF UsesMPI(v) THEN "aborted" ELSE "done"

\* the factors of an r x c matrix at rank k
Success(r, c, k) ==
    [status |-> 0, crash |-> FALSE,
     U |-> Mat(r, k, FactorBuf(1, r * k)),
     S |-> Mat(k, k, FactorBuf(2, k * k)),
     V |-> Mat(c, k, FactorBuf(3, c * k))]
\* a failed call: nothing computed, or only the first factor
Failures(r, c, k) ==
    {[status |-> 1, crash |-> FALSE, U |-> NullMat, S |-> NullMat, V |-> NullMat],
     [status |-> 1, crash |-> FALSE,
      U |-> Mat(r, k, FactorBuf(1, r * k)), S |-> NullMat, V |-> NullMat]}
\* the external routine, by its contract: three descriptors, any of them
\* null, and a status; for a rank outside 1..min(rows, cols) its behaviour
\* is unspecified and the call may also never return
svds_C_dense(r, c, k) ==
    IF 1 <= k /\ k <= Min({r, c})
    THEN {Success(r, c, k)} \cup Failures(r, c, k)
    ELSE {Success(r, c, k)} \cup Failures(r, c, k)
         \cup {[status |-> 1, crash |-> TRUE, U |-> NullMat, S |-> NullMat, V |-> NullMat]}

\* MPI_Init, the argument count test, the rank test and atoi of the arguments
MainStart ==
    /\ pc = "start"
    /\ IF argc < MinArgc(variant)
       THEN /\ pc' = "done" /\ exit_code' = 1
            /\ stderr_out' = IF rank = 0 THEN Append(stderr_out, "usage") ELSE stderr_out
       ELSE IF rank # 0
       THEN /\ pc' = "done" /\ exit_code' = 0 /\ UNCHANGED stderr_out
       ELSE /\ pc' = IF HasLog(variant) THEN "log_open" ELSE "alloc"
            /\ UNCHANGED <<exit_code, stderr_out>>
    /\ UNCHANGED <<inputs, nmemb, peers, A, fp, err, wild, heap, factors, out, log, log_fp>>

\* fopen("svd_mpi.log", "w") and the first line of the log
MainLogOpen ==
    /\ pc = "log_open"
    /\ IF log_ok
       THEN /\ log' = <<"reading">> /\ log_fp' = TRUE /\ pc' = "alloc"
            /\ UNCHANGED <<stderr_out, exit_code>>
       ELSE /\ stderr_out' = Append(stderr_out, "cannot open log")
            /\ pc' = "aborted" /\ exit_code' = 1
            /\ UNCHANGED <<log, log_fp>>
    /\ peers' = IF pc' = "aborted" THEN MPI_Abort(peers) ELSE peers
    /\ UNCHANGED <<inputs, nmemb, A, fp, err, wild, heap, factors, out>>

\* the allocation with the test of its result left out
MainAlloc_Unchecked ==
    /\ pc = "alloc"
    /\ A' = IF alloc_ok
            THEN Mat(num_rows, num_cols, ZeroBuf(num_rows * num_cols))
            ELSE [null |-> FALSE, nrows |-> num_rows, ncols |-> num_cols,
                  has_d |-> FALSE, d |-> <<>>]
    /\ heap' = IF alloc_ok THEN heap \cup {<<"A", "d">>} ELSE heap
    /\ pc' = "fill_enter"
    /\ nmemb' = Wide(0, 0, num_rows * num_cols)
    /\ UNCHANGED <<inputs, peers, fp, err, wild, factors, out, log, log_fp, stderr_out,
                   exit_code>>

\* mat A; A.nrows = num_rows; A.ncols = num_cols; A.d = calloc(...)
MainAlloc ==
    /\ pc = "alloc"
    /\ IF alloc_ok
       THEN /\ A' = Mat(num_rows, num_cols, ZeroBuf(num_rows * num_cols))
            /\ heap' = heap \cup {<<"A", "d">>}
            /\ pc' = "fill_enter"
            /\ UNCHANGED <<log, log_fp, stderr_out, exit_code>>
       ELSE /\ A' = [null |-> FALSE, nrows |-> num_rows, ncols |-> num_cols,
                     has_d |-> FALSE, d |-> <<>>]
            /\ log' = LogLine(variant, log, "allocation failed")
            /\ stderr_out' = ErrLine(variant, stderr_out, "allocation failed")
            /\ log_fp' = FALSE
            /\ pc' = FailPc(variant) /\ exit_code' = 1
            /\ UNCHANGED heap
    /\ nmemb' = Wide(0, 0, num_rows * num_cols)
    /\ peers' = IF pc' = "aborted" THEN MPI_Abort(peers) ELSE peers
    /\ UNCHANGED <<inputs, fp, err, wild, factors, out>>

\* the test of err that opens the input once more after an error
MainCheckErr_Retry ==
    /\ pc = "fill_ret"
    /\ pc' = IF err # 0 THEN "fill_enter" ELSE "svd"
    /\ UNCHANGED <<inputs, nmemb, peers, A, fp, err, wild, heap, factors, out, log, log_fp,
                   stderr_out, exit_code>>

\* the test of err followed by the serializer instead of the factorization
MainCheckErr_SaveFirst ==
    /\ pc = "fill_ret"
    /\ pc' = IF err # 0 THEN FailPc(variant)
             ELSE IF Saves(variant) THEN "save_open" ELSE "svd"
    /\ exit_code' = IF err # 0 THEN 1 ELSE exit_code
    /\ peers' = IF pc' = "aborted" THEN MPI_Abort(peers) ELSE peers
    /\ UNCHANGED <<inputs, nmemb, A, fp, err, wild, heap, factors, out, log, log_fp, stderr_out>>

\* if (err) { report; free(A.d); abort } else the line about the read time
MainCheckErr ==
    /\ pc = "fill_ret"
    /\ IF err # 0
       THEN /\ log' = LogLine(variant, log, "error reading csv")
            /\ stderr_out' = ErrLine(variant, stderr_out, "error reading csv")
            /\ A' = [A EXCEPT !.has_d = FALSE, !.d = <<>>]
            /\ heap' = heap \ {<<"A", "d">>}
            /\ log_fp' = FALSE
            /\ pc' = FailPc(variant) /\ exit_code' = 1
       ELSE /\ log' = LogLine(variant, log, "csv took")
            /\ pc' = "svd"
            /\ UNCHANGED <<A, heap, log_fp, stderr_out, exit_code>>
    /\ peers' = IF pc' = "aborted" THEN MPI_Abort(peers) ELSE peers
    /\ UNCHANGED <<inputs, nmemb, fp, err, wild, factors, out>>

\* a factorization call that clears the matrix it was given
MainSvd_ClearsA ==
    /\ pc = "svd"
    /\ A' = [A EXCEPT !.d = ZeroBuf(Len(A.d))]
    /\ Uk' = NullMat /\ Sk' = NullMat /\ Vk' = NullMat
    /\ svd_status' = 1
    /\ svd_calls' = svd_calls + 1
    /\ pc' = IF Saves(variant) THEN "save_open" ELSE "free"
    /\ UNCHANGED <<inputs, nmemb, peers, fp, err, wild, heap, out, log, log_fp, stderr_out,
                   exit_code>>

\* mat *Uk = NULL, *Sk = NULL, *Vk = NULL; svds_C_dense(&A, &Uk, &Sk, &Vk, K);
\* the entry point that receives the status prints it when it is not zero.
\* No entry point tests K before the call.
MainSvd ==
    /\ pc = "svd"
    /\ \E o \in svds_C_dense(num_rows, num_cols, RankArg(variant, K)) :
          /\ Uk' = o.U /\ Sk' = o.S /\ Vk' = o.V
          /\ svd_status' = o.status
          /\ svd_calls' = svd_calls + 1
          /\ heap' = heap \cup Blocks("Uk", o.U) \cup Blocks("Sk", o.S)
                          \cup Blocks("Vk", o.V)
          /\ IF o.crash
             THEN /\ pc' = "crashed" /\ UNCHANGED <<log, stderr_out>>
             ELSE /\ pc' = IF Saves(variant) THEN "save_open" ELSE "free"
                  /\ log' = LogLine(variant, log, "svd took")
                  /\ stderr_out' = IF variant = "part_004" /\ o.status # 0
                                   THEN Append(stderr_out, "svds_C_dense returned error code")
                                   ELSE stderr_out
    /\ UNCHANGED <<inputs, nmemb, peers, A, fp, err, wild, out, log_fp, exit_code>>

\* back from save_matrices: the line about the save time
MainAfterSave ==
    /\ pc = "save_ret"
    /\ log' = LogLine(variant, log, "saving took")
    /\ pc' = "free"
    /\ UNCHANGED <<inputs, nmemb, peers, A, fp, err, wild, heap, factors, out, log_fp,
                   stderr_out, exit_code>>

\* free(A.d), the frees of the factors, the last lines of the log, fclose,
\* MPI_Finalize and return 0
MainFree ==
    /\ pc = "free"
    /\ A' = [A EXCEPT !.has_d = FALSE, !.d = <<>>]
    /\ heap' = IF FreesFactors(variant) /\ (variant = "part_004" => svd_status = 0)
               THEN {}
               ELSE heap \ {<<"A", "d">>}
    /\ log' = LogLine(variant, LogLine(variant, log, "total time"), "completed successfully")
    /\ log_fp' = FALSE
    /\ pc' = "done"
    /\ exit_code' = 0
    /\ UNCHANGED <<inputs, nmemb, peers, fp, err, wild, factors, out, stderr_out>>

\* the files the whole run is checked on: a missing one, an empty one, one
\* with a header and two triples, one with a triple outside the matrix
MainFiles ==
    {NoFile, File(<<>>),
     File(<<Ln(HeaderLine), Ln(FormatTriple(<<0, 0, 50>>)), Ln(FormatTriple(<<0, 1, 30>>))>>),
     File(<<Ln(HeaderLine), Ln(FormatTriple(<<MaxDim, 0, 50>>))>>)}

\* the texts given for rows and cols: the sizes 1..MaxDim, or no integer
DimArgs == {NatChars(n) : n \in 1..MaxDim} \cup {NotAnInt}
\* the texts given for K: 0..MaxDim + 1, or no integer
RankArgs == {NatChars(n) : n \in 0..(MaxDim + 1)} \cup {NotAnInt}

\* the state at the start of main: every entry point, every participant, a
\* command line that is too short or complete
InitRun ==
    /\ variant \in Variants
    /\ rank \in IF UsesMPI(variant) THEN 0..MaxRank ELSE {0}
    /\ argc \in {2, 4, 5}
    /\ IF rank = 0 /\ argc >= MinArgc(variant)
       THEN /\ csv_file \in MainFiles
            /\ argv \in {Argv(r, c, k) : r \in DimArgs, c \in DimArgs,
                                         k \in IF variant = "part_004" THEN {<<"0">>}
                                                                       ELSE RankArgs}
            /\ out_ok \in IF Saves(variant) THEN BOOLEAN ELSE {TRUE}
            /\ log_ok \in IF HasLog(variant) THEN BOOLEAN ELSE {TRUE}
            /\ alloc_ok \in BOOLEAN
            /\ out \in IF Saves(variant) THEN {NoOut, StaleOut} ELSE {NoOut}
       ELSE /\ csv_file = NoFile
            /\ argv = Argv(<<"1">>, <<"1">>, <<"1">>)
            /\ out_ok = TRUE /\ log_ok = TRUE /\ alloc_ok = TRUE
            /\ out = NoOut
    /\ num_rows = atoi(argv.rows)
    /\ num_cols = atoi(argv.cols)
    /\ K = atoi(argv.K)
    /\ pc = "start"
    /\ A = NullMat
    /\ nmemb = NoLen
    /\ fp = 0
    /\ err = Unset
    /\ wild = {}
    /\ heap = {}
    /\ Uk = NullMat /\ Sk = NullMat /\ Vk = NullMat
    /\ svd_calls = 0
    /\ svd_status = 0
    /\ log = StaleLog
    /\ log_fp = FALSE
    /\ stderr_out = <<>>
    /\ exit_code = Unset

\* one process of the job on its own
Init == InitRun /\ peers = <<>>

Next ==
    \/ MainStart
    \/ MainLogOpen
    \/ MainAlloc
    \/ FillEnter
    \/ FillHeader
    \/ FillLine
    \/ FillEof
    \/ MainCheckErr
    \/ MainSvd
    \/ SaveOpen
    \/ SaveU
    \/ SaveS
    \/ SaveV
    \/ MainAfterSave
    \/ MainFree

Spec == Init /\ [][Next]_vars

\* ---------------------------------------------------------------------
\* Claims about the factorization driver
\* ---------------------------------------------------------------------

\* C9: when K is 0, below 1 or above min(rows, cols), the driver raises a
\* FactorizationFailure and the external factorization routine is never
\* invoked in that run.
C9_InvalidRankShortCircuits ==
    (RankArg(variant, K) < 1 \/ RankArg(variant, K) > Min({num_rows, num_cols}))
        => svd_calls = 0

\* C10: when the external factorization reports a nonzero status, the driver
\* reports failure and the serializer is never invoked: no factor matrix of
\* the failed call is written to the output file, and the run does not end
\* with exit code 0. Stated for the runs whose rank is valid, so that the
\* failure is the external routine's own.
C10_FailureNotSerialized ==
    (/\ svd_calls > 0 /\ svd_status # 0
     /\ 1 <= RankArg(variant, K) /\ RankArg(variant, K) <= Min({num_rows, num_cols}))
        => /\ pc \notin {"save_open", "save_U", "save_S", "save_V", "save_ret"}
           /\ out \in {NoOut, StaleOut}
           /\ (pc = "done" => exit_code # 0)

\* ---------------------------------------------------------------------
\* The MPI job: participant 0 and the participants 1..MaxRank
\* ---------------------------------------------------------------------

\* a participant with rank >= 1: MPI_Init, the argument count test, the rank
\* test that skips the work, MPI_Finalize and return
PeerRun(r) ==
    /\ r \in DOMAIN peers
    /\ peers[r].pc = "start"
    /\ peers' = [peers EXCEPT ![r] =
                    [pc |-> "done",
                     exit_code |-> IF argc < MinArgc(variant) THEN 1 ELSE 0]]
    /\ UNCHANGED <<inputs, nmemb, pc, A, fp, err, wild, heap, factors, out, log, log_fp,
                   stderr_out, exit_code>>

\* the job at its start: participant 0 is the process followed step by step
InitJob ==
    /\ InitRun
    /\ UsesMPI(variant)
    /\ rank = 0
    /\ peers = [r \in 1..MaxRank |-> [pc |-> "start", exit_code |-> Unset]]

NextJob ==
    \/ Next
    \/ \E r \in DOMAIN peers : PeerRun(r)

SpecJob == InitJob /\ [][NextJob]_vars

\* ---------------------------------------------------------------------
\* Claims about exit codes, errors and the participants of the job
\* ---------------------------------------------------------------------

\* the command line has the arguments the entry point asks for
EnoughArgs == argc >= MinArgc(variant)
\* the rank handed to the external routine is within 1..min(rows, cols)
ValidRank ==
    1 <= RankArg(variant, K) /\ RankArg(variant, K) <= Min({num_rows, num_cols})
\* the process has ended: it returned from main or the job was aborted
Ended == pc \in {"done", "aborted"}
\* the lines this run has put into the log file
RunLines ==
    IF Len(log) >= Len(StaleLog) /\ SubSeq(log, 1, Len(StaleLog)) = StaleLog
    THEN SubSeq(log, Len(StaleLog) + 1, Len(log))
    ELSE log
\* the output file is as it was before the run
OutUntouched == out \in {NoOut, StaleOut}

\* C11: participant 0 exits 0 only on success. Stated for the runs in which
\* everything before the serializer went well (integer arguments, a valid K,
\* ingestion without error, a factorization with status 0): such a run exits
\* 0 only if the output file was opened and holds the three records.
C11_ExitZeroOnlyOnSuccess ==
    (/\ rank = 0 /\ EnoughArgs /\ pc = "done" /\ exit_code = 0
     /\ Saves(variant)
     /\ NotAnInt \notin {argv.rows, argv.cols, argv.K}
     /\ ValidRank /\ svd_status = 0)
        => /\ err = 0
           /\ svd_calls = 1
           /\ out_ok
           /\ out = OutFile(save_one_matrix(Uk) \o save_one_matrix(Sk)
                            \o save_one_matrix(Vk))

\* C12: on a usage error (too few arguments, or rows, cols or K that is not
\* an integer) the process does no work at all: it goes from its start
\* straight to its end with a nonzero exit code, nothing allocated, no file
\* opened, the factorization not called and the output file untouched.
C12_UsageErrorNoWork ==
    (argc < 5 \/ NotAnInt \in {argv.rows, argv.cols, argv.K})
        => /\ pc \in {"start", "done"}
           /\ (pc = "done" => exit_code \notin {0, Unset})
           /\ heap = {} /\ fp = 0 /\ svd_calls = 0
           /\ OutUntouched /\ log = StaleLog

\* C13: with a complete command line, every participant with rank >= 1 that
\* has ended has exit code 0, in every interleaving with participant 0.
C13_PeersExitZero ==
    EnoughArgs =>
        \A r \in DOMAIN peers : peers[r].pc # "start" => peers[r].exit_code = 0

\* C14: when the input file cannot be opened the run ends with a nonzero
\* exit code, the factorization is never called, the output file is
\* untouched and the run puts at most the one error line into the log.
C14_MissingInput ==
    (rank = 0 /\ EnoughArgs /\ log_ok /\ alloc_ok /\ ~csv_file.exists)
        => /\ svd_calls = 0
           /\ OutUntouched
           /\ Len(RunLines) <= 1
           /\ (Ended => exit_code \notin {0, Unset})
           /\ pc \notin {"svd", "save_open", "save_U", "save_S", "save_V", "save_ret",
                         "free"}

\* the messages reported so far, in the log file or on stderr
Reported == {log[i] : i \in 1..Len(log)} \cup {stderr_out[i] : i \in 1..Len(stderr_out)}

\* C15: the allocation of the matrix is tested before use: when it fails,
\* the failure is reported and the run ends with a nonzero exit code; no
\* input is opened, no triple is applied, the factorization is not called
\* and the output file is untouched.
C15_AllocationChecked ==
    (rank = 0 /\ EnoughArgs /\ ~alloc_ok)
        => /\ pc \in {"start", "log_open", "alloc", "done", "aborted"}
           /\ A.d = <<>> /\ wild = {} /\ fp = 0
           /\ svd_calls = 0
           /\ OutUntouched
           /\ (Ended => exit_code \notin {0, Unset})
           /\ (Ended /\ log_ok => "allocation failed" \in Reported)

C15_Witness ==
    /\ rank = 0 /\ EnoughArgs /\ ~alloc_ok
    /\ Ended /\ exit_code = 1
    /\ "allocation failed" \in Reported
    /\ ~A.null /\ ~A.has_d

\* the positions at which a phase of the pipeline is running
WorkPcs ==
    {"alloc", "fill_enter", "fill_header", "fill_loop", "fill_ret", "svd",
     "save_open", "save_U", "save_S", "save_V", "save_ret", "free"}

\* C16: the log file is opened, written and closed for every message: while
\* a phase runs, between two messages, no handle on the log file is open.
C16_LogClosedBetweenMessages == pc \in WorkPcs => ~log_fp

\* C17: the log is append-only: what the log file held before the run is a
\* prefix of the log file in every state of the run.
C17_LogAppendOnly ==
    Len(log) >= Len(StaleLog) /\ SubSeq(log, 1, Len(StaleLog)) = StaleLog

\* C18: a successful run of the entry point with a log file (integer
\* arguments, a valid K, status 0, the output file written) puts exactly
\* four lines into it: ingest+build, factorize, serialize, total time, in
\* this order, the total-time line being the last.
C18_FourLogLines ==
    (/\ rank = 0 /\ EnoughArgs /\ HasLog(variant) /\ pc = "done" /\ exit_code = 0
     /\ NotAnInt \notin {argv.rows, argv.cols, argv.K}
     /\ ValidRank /\ svd_status = 0 /\ out_ok)
        => RunLines = <<"csv took", "svd took", "saving took", "total time">>

\* the phase a position belongs to: build 1, ingest 2, factorize 3,
\* serialize 4, release 5, ended 6
Phase(p) ==
    CASE p \in {"start", "log_open"} -> 0
      [] p = "alloc" -> 1
      [] p \in {"fill_enter", "fill_header", "fill_loop", "fill_ret"} -> 2
      [] p = "svd" -> 3
      [] p \in {"save_open", "save_U", "save_S", "save_V", "save_ret"} -> 4
      [] p = "free" -> 5
      [] OTHER -> 6

C20_SingleMutator ==
    [][A' # A =>
          \/ pc = "alloc"
          \/ /\ pc = "fill_loop"
             /\ A'.nrows = A.nrows /\ A'.ncols = A.ncols /\ Len(A'.d) = Len(A.d)
          \/ /\ pc \in {"fill_ret", "free"}
             /\ pc' \in {"done", "aborted"}
             /\ A' = [A EXCEPT !.has_d = FALSE, !.d = <<>>]
      ]_vars

C20_Witness ==
    /\ pc = "save_ret" /\ svd_calls = 1
    /\ A.has_d /\ \E i \in 1..Len(A.d) : A.d[i] # 0

\* ---------------------------------------------------------------------
\* Claims about the participants, the resources and the single shot
\* ---------------------------------------------------------------------

\* C21: a participant with rank >= 1 does not depend on any step of
\* participant 0: with a complete command line it is never ended from
\* outside, and its exit code is 0 whether participant 0 succeeds, fails or
\* aborts the job.
C21_PeersIndependent ==
    EnoughArgs =>
        \A r \in DOMAIN peers :
            /\ peers[r].pc \in {"start", "done"}
            /\ (Ended => peers[r].exit_code \in {0, Unset})

\* C22: on every failure path every resource acquired so far is released
\* before the process exits or aborts: when participant 0 has ended with a
\* nonzero exit code no heap block is held and neither the input file nor
\* the log file is open.
C22_FailureReleasesAll ==
    (rank = 0 /\ Ended /\ exit_code \notin {0, Unset})
        => heap = {} /\ fp = 0 /\ ~log_fp

\* the heap blocks of the three factor descriptors
FactorBlocks == Blocks("Uk", Uk) \cup Blocks("Sk", Sk) \cup Blocks("Vk", Vk)

\* C23: every factor descriptor the factorization call returned is released
\* after the serialization: when the process has returned from main after a
\* successful call with a valid K, no block of a factor is still held.
C23_FactorsReleased ==
    (rank = 0 /\ pc = "done" /\ svd_calls = 1 /\ svd_status = 0 /\ ValidRank)
        => heap \cap FactorBlocks = {}

\* the place of a position in the program text
Pos(p) ==
    CASE p = "start" -> 0
      [] p = "log_open" -> 1
      [] p = "alloc" -> 2
      [] p = "fill_enter" -> 3
      [] p = "fill_header" -> 4
      [] p = "fill_loop" -> 5
      [] p = "fill_ret" -> 6
      [] p = "svd" -> 7
      [] p = "save_open" -> 8
      [] p = "save_U" -> 9
      [] p = "save_S" -> 10
      [] p = "save_V" -> 11
      [] p = "save_ret" -> 12
      [] p = "free" -> 13
      [] OTHER -> 14

\* C24: nothing is retried: the process only moves forward in its program,
\* and the steps that open the input file, allocate the matrix, call the
\* factorization and open the output file each leave their position for a
\* later one, so each of them happens at most once in a run.
C24_NoRetry ==
    [][/\ (pc' # pc => Pos(pc') > Pos(pc))
       /\ (pc' = pc => pc = "fill_loop")
       /\ (fp = 0 /\ fp' # 0 => pc = "fill_enter")
       /\ (<<"A", "d">> \notin heap /\ <<"A", "d">> \in heap' => pc = "alloc")
       /\ (svd_calls' # svd_calls => pc = "svd" /\ svd_calls' = 1)
       /\ (out' # out /\ out' = OutFile(<<>>) => pc = "save_open")
      ]_vars

C24_Witness ==
    /\ rank = 0 /\ Ended /\ exit_code = 1
    /\ err \notin {0, Unset} /\ fp = 0
    /\ svd_calls = 0 /\ OutUntouched

\* ---------------------------------------------------------------------
\* Claims about the edges of the input and of the record format
\* ---------------------------------------------------------------------

\* C28: an input file that opens but holds no line makes the ingestion
\* return a nonzero code with the file closed, and the run then ends
\* nonzero without calling the factorization or writing an output file, in
\* every variant.
C28_EmptyInput ==
    (rank = 0 /\ EnoughArgs /\ csv_file = File(<<>>))
        => /\ (pc = "fill_ret" => err \notin {0, Unset} /\ fp = 0)
           /\ pc \notin {"svd", "save_open", "save_U", "save_S", "save_V", "save_ret",
                         "free"}
           /\ svd_calls = 0
           /\ OutUntouched
           /\ (Ended => exit_code \notin {0, Unset})

\* C29: each line of the input causes at most one write: every turn of the
\* read loop that changes the matrix has read from the start of a line, so
\* no part of a line behind its first 255 characters is parsed and applied
\* as a triple of its own.
C29_OneWritePerLine ==
    [][pc = "fill_loop" /\ A' # A => fp \in LineStarts(Text(csv_file))]_vars

\* the descriptor M is there but has no buffer
NoData(M) == ~M.null /\ ~M.has_d

Profiles == {"SVD_main", "multi_threaded"}
\* the pipeline step a position stands for: the opening of the log file is
\* no pipeline step, and a return from main and an abort both end the run
Stage(p) ==
    IF p \in {"done", "aborted"} THEN "ended"
    ELSE IF p = "log_open" THEN "alloc"
    ELSE p
\* the buffer after one line of the read loop, for a matrix of nr x nc
Stored(M, nr, nc, s) ==
    IF s.n = 3 /\ s.uid >= 0 /\ s.uid < nr /\ s.mid >= 0 /\ s.mid < nc
    THEN [M.d EXCEPT ![s.uid * nc + s.mid + 1] = s.rating]
    ELSE M.d
\* one step of the pipeline, written without reference to the entry point:
\* the next pipeline step, the matrix, the read position, the code of the
\* ingestion and the output file, from the inputs and the factors alone
PipelineStep ==
    LET r == Fgets(Text(csv_file), fp)
        released == [A EXCEPT !.has_d = FALSE, !.d = <<>>]
    IN  CASE pc = "start" ->
               /\ Stage(pc') = IF argc < 5 THEN "ended" ELSE "alloc"
               /\ UNCHANGED <<A, fp, err, out>>
          [] pc = "log_open" ->
               Stage(pc') = "alloc" /\ UNCHANGED <<A, fp, err, out>>
          [] pc = "alloc" ->
               /\ IF alloc_ok
                  THEN /\ pc' = "fill_enter"
                       /\ A' = Mat(num_rows, num_cols, ZeroBuf(num_rows * num_cols))
                  ELSE Stage(pc') = "ended" /\ ~A'.has_d
               /\ UNCHANGED <<fp, err, out>>
          [] pc = "fill_enter" ->
               /\ IF csv_file.exists
                  THEN pc' = "fill_header" /\ fp' = 1 /\ err' = err
                  ELSE pc' = "fill_ret" /\ fp' = fp /\ err' = 3
               /\ UNCHANGED <<A, out>>
          [] pc = "fill_header" ->
               /\ IF r.null
                  THEN pc' = "fill_ret" /\ fp' = 0 /\ err' = 4
                  ELSE pc' = "fill_loop" /\ fp' = r.next /\ err' = err
               /\ UNCHANGED <<A, out>>
          [] pc = "fill_loop" ->
               /\ IF r.null
                  THEN pc' = "fill_ret" /\ fp' = 0 /\ err' = 0 /\ A' = A
                  ELSE /\ pc' = "fill_loop" /\ fp' = r.next /\ err' = err
                       /\ A' = [A EXCEPT !.d = Stored(A, num_rows, num_cols,
                                                      Sscanf(r.line))]
               /\ out' = out
          [] pc = "fill_ret" ->
               /\ IF err # 0
                  THEN Stage(pc') = "ended" /\ A' = released
                  ELSE pc' = "svd" /\ A' = A
               /\ UNCHANGED <<fp, err, out>>
          [] pc = "svd" ->
               pc' \in {"save_open", "crashed"} /\ UNCHANGED <<A, fp, err, out>>
          [] pc = "save_open" ->
               /\ IF out_ok
                  THEN pc' = "save_U" /\ out' = OutFile(<<>>)
                  ELSE pc' = "save_ret" /\ out' = out
               /\ UNCHANGED <<A, fp, err>>
          [] pc = "save_U" ->
               /\ pc' = "save_S" /\ out' = OutFile(out.bytes \o save_one_matrix(Uk))
               /\ UNCHANGED <<A, fp, err>>
          [] pc = "save_S" ->
               /\ pc' = "save_V" /\ out' = OutFile(out.bytes \o save_one_matrix(Sk))
               /\ UNCHANGED <<A, fp, err>>
          [] pc = "save_V" ->
               /\ pc' = "save_ret" /\ out' = OutFile(out.bytes \o save_one_matrix(Vk))
               /\ UNCHANGED <<A, fp, err>>
          [] pc = "save_ret" ->
               pc' = "free" /\ UNCHANGED <<A, fp, err, out>>
          [] pc = "free" ->
               Stage(pc') = "ended" /\ A' = released /\ UNCHANGED <<fp, err, out>>
          [] OTHER -> FALSE

SizeInSizeT(v) == v = "part_003"
\* the row and column counts the size is checked on: small, a product just
\* above INT_MAX, the product 2^32, and a product just above 2^32
SizeDims == {2, 46341, 65536, 65537}
\* what the int expression whose exact value is x gives, as 64 bits
IntOutcomes(x) == {x, SizeOfInt(ToInt(x))}
\* the count handed to calloc for r rows and c columns
CallocCounts(v, r, c) ==
    IF SizeInSizeT(v) THEN {WideMul(r, c)}
    ELSE IntOutcomes(WideMul(r, c)) \cup {SizeOfInt(IntMul(r, c))}
\* calloc(n, 8) can succeed only where n * 8 fits a size_t
Allocatable(n) == n.top = 0 /\ n.hi < 1073741824
\* the index uid * ncols + mid as the store uses it
StoreIndexes(uid, nc, mid) ==
    IntOutcomes(WideAdd(WideMul(uid, nc), Wide(0, 0, mid)))
        \cup {SizeOfInt(IntAdd(IntMul(uid, nc), mid))}

\* A.d = calloc(...) and its test
SizeAlloc ==
    /\ pc = "size_alloc"
    /\ \E n \in CallocCounts(variant, num_rows, num_cols) :
        /\ nmemb' = n
        /\ IF alloc_ok /\ Allocatable(n)
           THEN /\ A' = [null |-> FALSE, nrows |-> num_rows, ncols |-> num_cols,
                         has_d |-> TRUE, d |-> <<>>]
                /\ heap' = heap \cup {<<"A", "d">>}
                /\ pc' = "size_store"
                /\ UNCHANGED <<log, log_fp, stderr_out, exit_code>>
           ELSE /\ A' = [null |-> FALSE, nrows |-> num_rows, ncols |-> num_cols,
                         has_d |-> FALSE, d |-> <<>>]
                /\ log' = LogLine(variant, log, "allocation failed")
                /\ stderr_out' = ErrLine(variant, stderr_out, "allocation failed")
                /\ log_fp' = FALSE
                /\ pc' = FailPc(variant) /\ exit_code' = 1
                /\ UNCHANGED heap
    /\ UNCHANGED <<inputs, peers, fp, err, wild, factors, out>>

\* one turn of the read loop whose sscanf gave the indices uid, mid of a cell
\* of the matrix: the bounds test passes and the rating is stored at idx
SizeStore ==
    /\ pc = "size_store"
    /\ \E uid \in {0, num_rows - 1}, mid \in {0, num_cols - 1} :
        \E idx \in StoreIndexes(uid, A.ncols, mid) :
            wild' = IF WideLess(idx, nmemb) THEN wild ELSE wild \cup {ToInt(idx)}
    /\ pc' = "size_done"
    /\ UNCHANGED <<inputs, nmemb, peers, A, fp, err, heap, factors, out, log, log_fp,
                   stderr_out, exit_code>>

InitSize ==
    /\ variant \in Variants
    /\ rank = 0
    /\ argc = 5
    /\ csv_file = File(<<Ln(HeaderLine)>>)
    /\ num_rows \in SizeDims
    /\ num_cols \in SizeDims
    /\ K = 1
    /\ argv = Argv(IntChars(num_rows), IntChars(num_cols), IntChars(K))
    /\ peers = <<>>
    /\ out_ok = TRUE
    /\ log_ok = TRUE
    /\ alloc_ok \in BOOLEAN
    /\ pc = "size_alloc"
    /\ A = NullMat
    /\ nmemb = NoLen
    /\ fp = 0
    /\ err = Unset
    /\ wild = {}
    /\ heap = {}
    /\ Uk = NullMat /\ Sk = NullMat /\ Vk = NullMat
    /\ svd_calls = 0
    /\ svd_status = 0
    /\ out = NoOut
    /\ log = <<>>
    /\ log_fp = HasLog(variant)
    /\ stderr_out = <<>>
    /\ exit_code = Unset

NextSize == SizeAlloc \/ SizeStore

SpecSize == InitSize /\ [][NextSize]_vars

\* C26: whenever the buffer is allocated its length is rows x cols computed
\* without wrap-around, and no store of a triple inside the matrix falls
\* outside the buffer.
C26_SizeAndIndexExact ==
    /\ A.has_d => nmemb = WideMul(num_rows, num_cols)
    /\ pc = "size_done" => wild = {}

\* ---------------------------------------------------------------------
\* Termination
\* ---------------------------------------------------------------------

\* the command lines termination is checked on: the smallest and the
\* largest matrix, a valid K and K = 0
LiveArgs ==
    {Argv(r, c, k) : r \in {NatChars(1), NatChars(MaxDim)},
                     c \in {NatChars(1), NatChars(MaxDim)},
                     k \in {NatChars(0), NatChars(1)}}
\* every run: the job of an MPI entry point with all its participants, or
\* the one process of the entry point without MPI
InitLive ==
    /\ InitJob \/ (Init /\ ~UsesMPI(variant))
    /\ argv \in LiveArgs

\* every process of the job is scheduled again and again until it has ended
FairSpec ==
    /\ InitLive
    /\ [][NextJob]_vars
    /\ WF_vars(Next)
    /\ \A r \in 1..MaxRank : WF_vars(PeerRun(r))

\* the external call has not failed to come back
CallReturned == ~(pc = "crashed" /\ svd_calls > 0)
\* every participant has ended: returned from main, aborted, or ended by the
\* operating system; none is left at a position inside the program
Finished ==
    /\ pc \in {"done", "aborted", "crashed"}
    /\ \A r \in DOMAIN peers : peers[r].pc \in {"done", "killed"}

\* C27: the input file being finite, if the external call returns then
\* every participant of every run eventually ends, and the run ends only by
\* returning from main after the last step or by an abort, never by
\* stopping at a position inside the program.
C27_Terminates == ([]CallReturned) => <>Finished

C27_Witness ==
    /\ pc = "done" /\ exit_code = 0 /\ svd_calls = 1 /\ heap = {}
    /\ peers # <<>>
    /\ \A r \in DOMAIN peers : peers[r] = [pc |-> "done", exit_code |-> 0]

====
